---- MODULE Spec2Model ----
(***************************************************************************)
(* Model of src/USRixits.js: three radix-64 codec objects kept in one file *)
(* (the first `USRixits`, the second `USRixits`, and `MyBase64`).  Each    *)
(* object has the same six functions; they differ in the symbol table, in  *)
(* the value returned for zero, in the sentinel of decodeString, in the    *)
(* conversions applied to results, and (MyBase64) in the helper names the  *)
(* string functions call.                                                  *)
(*                                                                         *)
(* A JavaScript string is a sequence of one-character strings; a text is a *)
(* sequence of 16-bit code units.  BigInt values are TLA+ integers (the    *)
(* bounds keep every value far below 2^31).                                *)
(***************************************************************************)
EXTENDS Integers, Sequences, FiniteSets, TLC

VARIABLES variant, pc, op, num, base, str, text, out, frame

vars == <<variant, pc, op, num, base, str, text, out, frame>>

(***************************************************************************)
(* Bounds of the model.                                                    *)
(***************************************************************************)
MaxNum == 4200        \* encodeNumber inputs 0..MaxNum (covers 64^2 = 4096)
MaxStrLen == 3        \* decoder input strings have at most this many chars
MaxTextLen == 2       \* encodeString inputs have at most this many code units
MaxBase == 66         \* base arguments 0..MaxBase (64 is the radix)
MaxBaseNum == 70      \* encodeNumberBase inputs 0..MaxBaseNum
MaxLoopLen == 12      \* a running division loop is followed up to this result length

\* Characters that decoder inputs are built from: digits of low and high
\* index, the three punctuation symbols, a pad outside every table ("~")
\* and a character in no table ("@").
InputChars == {"0", "1", "G", "-", "_", ".", "~", "@"}

\* Code units that encodeString inputs are built from: both ends of the one,
\* two and three digit bands, and 4030 = 62*64 + 62.
CodeUnits == {0, 1, 63, 64, 65, 4030, 4095, 4096, 65535}

Variants == {"USRixits1", "USRixits2", "MyBase64"}

(***************************************************************************)
(* Symbol tables.                                                          *)
(***************************************************************************)
Alnum ==
  << "0","1","2","3","4","5","6","7","8","9",
     "A","B","C","D","E","F","G","H","I","J","K","L","M",
     "N","O","P","Q","R","S","T","U","V","W","X","Y","Z",
     "a","b","c","d","e","f","g","h","i","j","k","l","m",
     "n","o","p","q","r","s","t","u","v","w","x","y","z" >>

\* `chars` of each object.  The first and the third table hold 65 characters.
chars(v) ==
  CASE v = "USRixits1" -> Alnum \o << "-", "_", "." >>
    [] v = "USRixits2" -> Alnum \o << "-", "." >>
    [] v = "MyBase64"  -> Alnum \o << ".", "_", "-" >>

\* `base: BigInt(64)` of each object.
radix == 64

\* String.prototype.indexOf on a one-character needle: first 0-based index
\* of c in s, or -1.
indexOf(s, c) ==
  IF \E i \in 1..Len(s) : s[i] = c
    THEN (CHOOSE i \in 1..Len(s) : s[i] = c /\ \A j \in 1..(i-1) : s[j] # c) - 1
    ELSE -1

\* What `"" + undefined` contributes to a string.
Undefined == << "u","n","d","e","f","i","n","e","d" >>

\* s[i] used in a string concatenation: the character at 0-based index i,
\* or the text "undefined" when i is past the end of s.
charAt(s, i) == IF i >= 0 /\ i < Len(s) THEN << s[i+1] >> ELSE Undefined

\* String.prototype.substr(i, n).
substr(s, i, n) ==
  SubSeq(s, i + 1, IF i + n <= Len(s) THEN i + n ELSE Len(s))

\* Number(bigint): exact for every value below 2^53; all values of the model
\* are below 2^31, where the conversion changes nothing.
Number(n) == n

\* String.fromCharCode(c) keeps the low 16 bits of c.
fromCharCode(c) == c % 65536

\* BigInt.prototype.toString(): decimal digits, most significant first.
RECURSIVE toStringDigits(_)
toStringDigits(n) ==
  IF n < 10 THEN << Alnum[n + 1] >>
  ELSE toStringDigits(n \div 10) \o << Alnum[(n % 10) + 1] >>

toString(n) == toStringDigits(n)

\* parseInt(x): x is converted to its decimal string, whose leading decimal
\* digits are then read back.
RECURSIVE parseDecimal(_, _, _)
parseDecimal(s, i, acc) ==
  IF i > Len(s) THEN acc
  ELSE LET d == indexOf(SubSeq(Alnum, 1, 10), s[i])
       IN  IF d = -1 THEN acc ELSE parseDecimal(s, i + 1, acc * 10 + d)

parseInt(n) == parseDecimal(toString(n), 1, 0)

(***************************************************************************)
(* Results of a call.                                                      *)
(***************************************************************************)
NoResult == [kind |-> "none", num |-> 0, str |-> << >>, text |-> << >>, err |-> ""]
RetNum(n) == [kind |-> "ok", num |-> n, str |-> << >>, text |-> << >>, err |-> ""]
RetStr(s) == [kind |-> "ok", num |-> 0, str |-> s, text |-> << >>, err |-> ""]
RetText(t) == [kind |-> "ok", num |-> 0, str |-> << >>, text |-> t, err |-> ""]
Throw(e) == [kind |-> "error", num |-> 0, str |-> << >>, text |-> << >>, err |-> e]
\* A call whose loop never exits.
Diverges == [kind |-> "diverges", num |-> 0, str |-> << >>, text |-> << >>, err |-> ""]

\* Locals of a running encodeNumber / encodeNumberBase call: the remaining
\* value `num`, the string `result` built so far, and the divisor b.
NoFrame == [num |-> 0, result |-> << >>, b |-> 0]

(***************************************************************************)
(* Integer codec.                                                          *)
(***************************************************************************)
\* `result || dflt`: the empty string is falsy.
orElse(result, dflt) == IF result = << >> THEN dflt ELSE result

\* encodeLoop with the loop test `num >= b`.
RECURSIVE encodeLoop_ge(_, _, _, _)
encodeLoop_ge(chs, n, b, result) ==
  IF n >= b
    THEN encodeLoop_ge(chs, n \div b, b, charAt(chs, n % b) \o result)
    ELSE result

\* The division loop shared by encodeNumber and encodeNumberBase:
\*   while (num > 0) { result = chars[num % b] + result; num = num / b; }
\* Called only with b >= 2 (see encodeNumberBase for b = 0 and b = 1).
RECURSIVE encodeLoop(_, _, _, _)
encodeLoop(chs, n, b, result) ==
  IF n > 0
    THEN encodeLoop(chs, n \div b, b, charAt(chs, n % b) \o result)
    ELSE result

\* encodeNumber of each object.  The first object and MyBase64 return '-'
\* for an empty result, the second object returns the result as it is.
encodeNumber(v, n) ==
  LET result == encodeLoop(chars(v), n, radix, << >>)
  IN  CASE v = "USRixits1" -> orElse(result, << "-" >>)
        [] v = "USRixits2" -> result
        [] v = "MyBase64"  -> orElse(result, << "-" >>)

\* The loop of decodeNumber, from 1-based position i with accumulator acc.
RECURSIVE decodeLoop(_, _, _, _)
decodeLoop(chs, s, i, acc) ==
  IF i > Len(s) THEN RetNum(acc)
  ELSE LET charIndex == indexOf(chs, s[i])
       IN  IF charIndex = -1
             THEN Throw("Invalid character")
             ELSE decodeLoop(chs, s, i + 1, acc * radix + charIndex)

decodeNumber(v, s) == decodeLoop(chars(v), s, 1, 0)

(***************************************************************************)
(* Text codec.                                                             *)
(***************************************************************************)
\* Step of the decodeString loop and length of the chunk it reads.
ChunkWidth == 2

\* The pad character of each object: `pad: '~'` of the second object; the
\* header comments of the other two name "." and "-".
pad(v) ==
  CASE v = "USRixits1" -> "."
    [] v = "USRixits2" -> "~"
    [] v = "MyBase64"  -> "-"

\* The chunk at which decodeString breaks: the literal '--' in the first
\* object and in MyBase64, pad + pad in the second object.
sentinel(v) ==
  CASE v = "USRixits1" -> << "-", "-" >>
    [] v = "USRixits2" -> << pad(v), pad(v) >>
    [] v = "MyBase64"  -> << "-", "-" >>

\* The loop of encodeString, from 1-based position i.  MyBase64 calls
\* MyBase64.encode, which the object does not define: a TypeError at the
\* first code unit.
RECURSIVE encodeStringLoop(_, _, _, _)
encodeStringLoop(v, t, i, result) ==
  IF i > Len(t) THEN RetStr(result)
  ELSE IF v = "MyBase64" THEN Throw("TypeError")
  ELSE encodeStringLoop(v, t, i + 1, result \o encodeNumber(v, t[i]))

encodeString(v, t) == encodeStringLoop(v, t, 1, << >>)

\* The loop of decodeString, from 0-based position i.  MyBase64 calls
\* MyBase64.decode, which the object does not define; the second object
\* converts with parseInt, the first with Number.
RECURSIVE decodeStringLoop(_, _, _, _)
decodeStringLoop(v, s, i, result) ==
  IF ~(i < Len(s)) THEN RetText(result)
  ELSE LET chunk == substr(s, i, ChunkWidth)
       IN  IF chunk = sentinel(v) THEN RetText(result)
           ELSE IF v = "MyBase64" THEN Throw("TypeError")
           ELSE LET d == decodeNumber(v, chunk)
                IN  IF d.kind # "ok" THEN d
                    ELSE LET charCode == IF v = "USRixits2"
                                           THEN parseInt(d.num)
                                           ELSE Number(d.num)
                         IN  decodeStringLoop(v, s, i + ChunkWidth,
                                              Append(result, fromCharCode(charCode)))

decodeString(v, s) == decodeStringLoop(v, s, 0, << >>)

(***************************************************************************)
(* Generic-base codec.                                                     *)
(***************************************************************************)
\* encodeNumberBase of each object.  With num > 0: base 0 makes
\* `num % BigInt(base)` throw a RangeError (division by zero); base 1 leaves
\* num unchanged by `num / BigInt(base)`, so the loop never exits.
encodeNumberBase(v, n, b) ==
  IF n > 0 /\ b = 0 THEN Throw("RangeError")
  ELSE IF n > 0 /\ b = 1 THEN Diverges
  ELSE LET result == encodeLoop(chars(v), n, b, << >>)
       IN  CASE v = "USRixits1" -> RetStr(orElse(result, << "0" >>))
             [] v = "USRixits2" -> RetStr(result)
             [] v = "MyBase64"  -> RetStr(orElse(result, << "0" >>))

\* decodeBaseLoop with the digit test `charIndex > base`.
RECURSIVE decodeBaseLoop_gt(_, _, _, _, _)
decodeBaseLoop_gt(chs, s, b, i, acc) ==
  IF i > Len(s) THEN RetNum(acc)
  ELSE LET charIndex == indexOf(chs, s[i])
       IN  IF charIndex = -1 \/ charIndex > b
             THEN Throw("Invalid base character")
             ELSE decodeBaseLoop_gt(chs, s, b, i + 1, acc * b + charIndex)

\* The loop of decodeNumberBase.
RECURSIVE decodeBaseLoop(_, _, _, _, _)
decodeBaseLoop(chs, s, b, i, acc) ==
  IF i > Len(s) THEN RetNum(acc)
  ELSE LET charIndex == indexOf(chs, s[i])
       IN  IF charIndex = -1 \/ charIndex >= b
             THEN Throw("Invalid base character")
             ELSE decodeBaseLoop(chs, s, b, i + 1, acc * b + charIndex)

\* decodeNumberBase of each object: the second object returns the decimal
\* string of the value, the others the value as a Number.
decodeNumberBase(v, s, b) ==
  LET r == decodeBaseLoop(chars(v), s, b, 1, 0)
  IN  IF r.kind # "ok" THEN r
      ELSE CASE v = "USRixits1" -> RetNum(Number(r.num))
             [] v = "USRixits2" -> RetStr(toString(r.num))
             [] v = "MyBase64"  -> RetNum(Number(r.num))

(***************************************************************************)
(* Inputs.                                                                 *)
(***************************************************************************)
SeqsUpTo(S, n) == UNION { [1..k -> S] : k \in 0..n }

InputStrings == SeqsUpTo(InputChars, MaxStrLen)
InputTexts == SeqsUpTo(CodeUnits, MaxTextLen)

(***************************************************************************)
(* State machine: one caller picks an object, makes one call, and may feed *)
(* the string an encoder returned to the matching decoder.                 *)
(***************************************************************************)
Init ==
  /\ variant \in Variants
  /\ pc = "idle"
  /\ op = "none"
  /\ num = 0
  /\ base = 0
  /\ str = << >>
  /\ text = << >>
  /\ out = NoResult
  /\ frame = NoFrame

EncodeNumber ==
  /\ pc = "idle"
  /\ \E n \in 0..MaxNum :
       /\ num' = n
       /\ out' = RetStr(encodeNumber(variant, n))
  /\ op' = "encodeNumber"
  /\ pc' = "returned"
  /\ UNCHANGED <<variant, frame, base, str, text>>

DecodeNumber ==
  /\ pc = "idle"
  /\ \E s \in InputStrings :
       /\ str' = s
       /\ out' = decodeNumber(variant, s)
  /\ op' = "decodeNumber"
  /\ pc' = "returned"
  /\ UNCHANGED <<variant, frame, num, base, text>>

\* decodeNumber(encodeNumber(num))
DecodeEncodedNumber ==
  /\ pc = "returned"
  /\ op = "encodeNumber"
  /\ out.kind = "ok"
  /\ str' = out.str
  /\ out' = decodeNumber(variant, out.str)
  /\ op' = "decodeNumber"
  /\ pc' = "roundtrip"
  /\ UNCHANGED <<variant, frame, num, base, text>>

EncodeString ==
  /\ pc = "idle"
  /\ \E t \in InputTexts :
       /\ text' = t
       /\ out' = encodeString(variant, t)
  /\ op' = "encodeString"
  /\ pc' = "returned"
  /\ UNCHANGED <<variant, frame, num, base, str>>

DecodeString ==
  /\ pc = "idle"
  /\ \E s \in InputStrings :
       /\ str' = s
       /\ out' = decodeString(variant, s)
  /\ op' = "decodeString"
  /\ pc' = "returned"
  /\ UNCHANGED <<variant, frame, num, base, text>>

\* decodeString(encodeString(text))
DecodeEncodedString ==
  /\ pc = "returned"
  /\ op = "encodeString"
  /\ out.kind = "ok"
  /\ str' = out.str
  /\ out' = decodeString(variant, out.str)
  /\ op' = "decodeString"
  /\ pc' = "roundtrip"
  /\ UNCHANGED <<variant, frame, num, base, text>>

EncodeNumberBase ==
  /\ pc = "idle"
  /\ \E n \in 0..MaxBaseNum, b \in 0..MaxBase :
       /\ num' = n
       /\ base' = b
       /\ out' = encodeNumberBase(variant, n, b)
  /\ op' = "encodeNumberBase"
  /\ pc' = "returned"
  /\ UNCHANGED <<variant, frame, str, text>>

DecodeNumberBase ==
  /\ pc = "idle"
  /\ \E s \in InputStrings, b \in 0..MaxBase :
       /\ str' = s
       /\ base' = b
       /\ out' = decodeNumberBase(variant, s, b)
  /\ op' = "decodeNumberBase"
  /\ pc' = "returned"
  /\ UNCHANGED <<variant, frame, num, text>>

(***************************************************************************)
(* The division loop of encodeNumber and encodeNumberBase, one iteration   *)
(* per step: pc = "loop" while the call is inside (or at the test of) its  *)
(* while loop.                                                             *)
(***************************************************************************)
\* One iteration of the loop body:
\*   result = chars[num % b] + result; num = num / b;
encodeStep(chs, f) ==
  [num |-> f.num \div f.b, result |-> charAt(chs, f.num % f.b) \o f.result, b |-> f.b]

\* encodeNumber(n) is entered: result = '', the divisor is USRixits.base.
BeginEncodeNumber ==
  /\ pc = "idle"
  /\ \E n \in 0..MaxBaseNum :
       /\ num' = n
       /\ frame' = [num |-> n, result |-> << >>, b |-> radix]
  /\ op' = "encodeNumber"
  /\ pc' = "loop"
  /\ UNCHANGED <<variant, base, str, text, out>>

\* encodeNumberBase(n, b) is entered: num = BigInt(num), result = ''.
BeginEncodeNumberBase ==
  /\ pc = "idle"
  /\ \E n \in 0..MaxBaseNum, b \in 0..MaxBase :
       /\ num' = n
       /\ base' = b
       /\ frame' = [num |-> n, result |-> << >>, b |-> b]
  /\ op' = "encodeNumberBase"
  /\ pc' = "loop"
  /\ UNCHANGED <<variant, str, text, out>>

\* The loop test holds and the body runs once.
EncodeLoopStep ==
  /\ pc = "loop"
  /\ frame.num > 0
  /\ frame.b # 0
  /\ Len(frame.result) < MaxLoopLen
  /\ frame' = encodeStep(chars(variant), frame)
  /\ UNCHANGED <<variant, pc, op, num, base, str, text, out>>

\* The loop test holds and `num % BigInt(0)` throws (division by zero).
EncodeLoopThrow ==
  /\ pc = "loop"
  /\ frame.num > 0
  /\ frame.b = 0
  /\ out' = Throw("RangeError")
  /\ pc' = "returned"
  /\ UNCHANGED <<variant, frame, op, num, base, str, text>>

\* The loop test fails and the function returns.
EncodeLoopReturn ==
  /\ pc = "loop"
  /\ ~(frame.num > 0)
  /\ out' = IF variant = "USRixits2" THEN RetStr(frame.result)
            ELSE IF op = "encodeNumber" THEN RetStr(orElse(frame.result, << "-" >>))
            ELSE RetStr(orElse(frame.result, << "0" >>))
  /\ pc' = "returned"
  /\ UNCHANGED <<variant, frame, op, num, base, str, text>>

NextLoop ==
  \/ BeginEncodeNumber
  \/ BeginEncodeNumberBase
  \/ EncodeLoopStep
  \/ EncodeLoopThrow
  \/ EncodeLoopReturn

NextNumber == EncodeNumber \/ DecodeNumber \/ DecodeEncodedNumber
NextText == EncodeString \/ DecodeString \/ DecodeEncodedString
NextBase == EncodeNumberBase \/ DecodeNumberBase

Next ==
  \/ EncodeNumber
  \/ DecodeNumber
  \/ DecodeEncodedNumber
  \/ EncodeString
  \/ DecodeString
  \/ DecodeEncodedString
  \/ EncodeNumberBase
  \/ DecodeNumberBase

Spec == Init /\ [][Next]_vars
SpecNumber == Init /\ [][NextNumber]_vars
SpecText == Init /\ [][NextText]_vars
SpecBase == Init /\ [][NextBase]_vars
SpecLoop == Init /\ [][NextLoop]_vars

TypeOK ==
  /\ variant \in Variants
  /\ pc \in {"idle", "loop", "returned", "roundtrip"}
  /\ out.kind \in {"none", "ok", "error", "diverges"}

(***************************************************************************)
(* Properties.                                                             *)
(***************************************************************************)
RECURSIVE Pow(_, _)
Pow(b, k) == IF k = 0 THEN 1 ELSE b * Pow(b, k - 1)

\* The 64 digit symbols of an object: the first `radix` entries of chars.
DigitSymbols(v) == { chars(v)[i] : i \in 1..radix }

\* C1: number round trip.  In every object, decodeNumber(encodeNumber(v))
\* returns v, for every v >= 0.
NumberRoundTrip ==
  (pc = "roundtrip" /\ op = "decodeNumber")
    => (out.kind = "ok" /\ out.num = num)

\* C2: text round trip.  In every object, encodeString(t) returns a string
\* and decodeString of that string returns t, for every text t.
TextRoundTrip ==
  /\ (pc = "returned" /\ op = "encodeString") => out.kind = "ok"
  /\ (pc = "roundtrip" /\ op = "decodeString")
       => (out.kind = "ok" /\ out.text = text)

\* C3: alphabet rejection.  In the first object, decodeNumber(s) throws its
\* invalid-character error whenever some character of s is not one of the
\* 64 digit symbols.
AlphabetRejection ==
  (variant = "USRixits1" /\ pc = "returned" /\ op = "decodeNumber"
     /\ \E i \in 1..Len(str) : str[i] \notin DigitSymbols(variant))
    => (out.kind = "error" /\ out.err = "Invalid character")

\* C4: base restriction.  For a base b in 2..64, decodeNumberBase(s, b)
\* throws whenever some character of s has a digit index >= b.
BaseRestriction ==
  (op = "decodeNumberBase" /\ base \in 2..radix
     /\ \E i \in 1..Len(str) : indexOf(chars(variant), str[i]) >= base)
    => out.kind = "error"

\* decodeNumberBase("G", 16) has thrown: 'G' has digit index 16.
BaseRestrictionWitness ==
  /\ op = "decodeNumberBase"
  /\ base = 16
  /\ str = << "G" >>
  /\ indexOf(chars(variant), "G") = 16
  /\ out.kind = "error"

\* C5: digit count.  For v >= 1, encodeNumber(v) has exactly the k
\* characters with 64^(k-1) <= v < 64^k, and its first character is not the
\* symbol of digit 0.
MonotonicDigitCount ==
  (op = "encodeNumber" /\ pc = "returned" /\ num >= 1)
    => LET k == Len(out.str)
       IN  /\ k >= 1
           /\ Pow(radix, k - 1) <= num
           /\ num < Pow(radix, k)
           /\ out.str[1] # chars(variant)[1]

\* encodeNumber(64) has returned the two digits 1, 0.
MonotonicDigitCountWitness ==
  /\ op = "encodeNumber"
  /\ pc = "returned"
  /\ num = 64
  /\ out.str = << chars(variant)[2], chars(variant)[1] >>

\* C6: zero representation.  In every object, encodeNumber(0) returns a
\* string of exactly one character.
ZeroRepresentation ==
  (op = "encodeNumber" /\ pc = "returned" /\ num = 0)
    => Len(out.str) = 1

\* C7: fixed-width format.  encodeString(t) is Len(t) chunks of 3
\* characters, the zero-padded base-64 digits of each code unit in input
\* order, followed by one chunk of 3 pad symbols.
FixedWidthFormat ==
  (op = "encodeString" /\ pc = "returned")
    => /\ out.kind = "ok"
       /\ Len(out.str) = 3 * (Len(text) + 1)
       /\ \A i \in 1..Len(text) :
            SubSeq(out.str, 3 * i - 2, 3 * i) =
              << chars(variant)[((text[i] \div 4096) % 64) + 1],
                 chars(variant)[((text[i] \div 64) % 64) + 1],
                 chars(variant)[(text[i] % 64) + 1] >>
       /\ SubSeq(out.str, 3 * Len(text) + 1, 3 * Len(text) + 3) =
            << pad(variant), pad(variant), pad(variant) >>

\* C8: sentinel distinguishability.  No single code unit is encoded as the
\* chunk at which decodeString breaks, and decodeString(encodeString(t))
\* reads every chunk of its input (one code unit per chunk; it never
\* breaks early).
SentinelDistinguishable ==
  /\ (op = "encodeString" /\ pc = "returned" /\ out.kind = "ok"
        /\ Len(text) = 1)
       => out.str # sentinel(variant)
  /\ (op = "decodeString" /\ pc = "roundtrip" /\ out.kind = "ok")
       => Len(out.text) * ChunkWidth >= Len(str)

\* The 0-based index of the first chunk of s equal to the sentinel, or
\* Len(s) when no chunk is.
FirstSentinel(v, s) ==
  LET at == { i \in 0..Len(s) :
                i % ChunkWidth = 0 /\ substr(s, i, ChunkWidth) = sentinel(v) }
  IN  IF at = {} THEN Len(s)
      ELSE CHOOSE i \in at : \A j \in at : i <= j

\* C9: truncated input.  decodeString(s) fails with a truncated-input error
\* whenever the characters of s before the first sentinel chunk (all of s
\* when there is none) do not fill a whole number of chunks.
TruncatedInputFails ==
  (op = "decodeString" /\ pc = "returned"
     /\ FirstSentinel(variant, str) % ChunkWidth # 0)
    => (out.kind = "error" /\ out.err = "TruncatedInput")

\* C10: invalid base.  For a base outside 2..64, encodeNumberBase and
\* decodeNumberBase fail with an invalid-base error, whatever the other
\* argument.
InvalidBaseFails ==
  (op \in {"encodeNumberBase", "decodeNumberBase"} /\ base \notin 2..radix)
    => (out.kind = "error" /\ out.err = "InvalidBase")

\* C11: termination.  Every iteration of the division loop of encodeNumber
\* and encodeNumberBase, for a base argument >= 1, leaves a strictly smaller
\* value, so that the loop reaches zero and the call completes.
DivisionLoopDecreases ==
  [][(pc = "loop" /\ pc' = "loop" /\ frame.b >= 1)
       => frame'.num < frame.num]_vars

\* C12: at base 64 the generic-base codec agrees with the integer codec.  In
\* every object, encodeNumberBase(v, 64) returns the string encodeNumber(v)
\* returns, for every v >= 0.
FullRadixAgrees ==
  (op = "encodeNumberBase" /\ pc = "returned" /\ base = radix)
    => (out.kind = "ok" /\ out.str = encodeNumber(variant, num))

\* C13: two-character band.  In the first object,
\* decodeString(encodeString(t)) returns t for every text t whose code
\* units all lie in 64..4095.
TwoCharBandRoundTrip ==
  (variant = "USRixits1" /\ pc = "roundtrip" /\ op = "decodeString"
     /\ \A i \in 1..Len(text) : text[i] \in 64..4095)
    => (out.kind = "ok" /\ out.text = text)

====
